---- MODULE Spec2Model ----
(***************************************************************************)
(* Model of the bencode codec of spate (spate-bencode/src/bencode.rs):     *)
(* the Value tree, the recursive-descent Decoder over a buffered byte      *)
(* stream, and the Encoder writing to a byte sink.                         *)
(*                                                                         *)
(* A byte is a number in 0..255, a byte string a sequence of bytes.  A     *)
(* Rust String is modelled by its UTF-8 bytes.  Integers are modelled for  *)
(* magnitudes far below 2^63, so the overflow branch of parse::<i64> and   *)
(* parse::<usize> is outside the inputs drawn here.                        *)
(***************************************************************************)
EXTENDS Integers, Sequences, FiniteSets, TLC

\* ------------------------------------------------------------------ tokens

DELIM_TOKEN == 58
INTEGER_TOKEN == 105
LIST_TOKEN == 108
DICT_TOKEN == 100
END_TOKEN == 101

\* b'0'..=b'9', the lookahead range of the byte-string production
IsDigit(b) == b >= 48 /\ b <= 57

\* ------------------------------------------------------------------ Value

Bytes(b) == <<"Bytes", b>>
Integer(n) == <<"Integer", n>>
List(l) == <<"List", l>>
\* A BTreeMap is the sequence of its (key, value) pairs in iteration order.
Dict(d) == <<"Dict", d>>

Tag(v) == v[1]
Body(v) == v[2]

\* #[derive(PartialOrd, Ord)]: variants compare by declaration order first.
VariantRank(v) ==
  CASE Tag(v) = "Bytes" -> 0
    [] Tag(v) = "Integer" -> 1
    [] Tag(v) = "List" -> 2
    [] Tag(v) = "Dict" -> 3

\* A faulty CmpBytes: the shorter byte string first, then byte by byte.
RECURSIVE CmpBytesByLength(_, _)
CmpBytesByLength(a, b) ==
  IF Len(a) < Len(b) THEN -1
  ELSE IF Len(a) > Len(b) THEN 1
  ELSE IF a = <<>> THEN 0
  ELSE IF Head(a) < Head(b) THEN -1
  ELSE IF Head(a) > Head(b) THEN 1
  ELSE CmpBytesByLength(Tail(a), Tail(b))

\* Ord for Vec<u8>: lexicographic, a proper prefix is smaller. -1, 0 or 1.
RECURSIVE CmpBytes(_, _)
CmpBytes(a, b) ==
  IF a = <<>> /\ b = <<>> THEN 0
  ELSE IF a = <<>> THEN -1
  ELSE IF b = <<>> THEN 1
  ELSE IF Head(a) < Head(b) THEN -1
  ELSE IF Head(a) > Head(b) THEN 1
  ELSE CmpBytes(Tail(a), Tail(b))

\* Derived Ord for Value; Vec<Value> and BTreeMap compare lexicographically
\* over their elements (a map over its (key, value) pairs).
RECURSIVE CmpValue(_, _), CmpValues(_, _), CmpPairs(_, _)
CmpValue(a, b) ==
  IF VariantRank(a) < VariantRank(b) THEN -1
  ELSE IF VariantRank(a) > VariantRank(b) THEN 1
  ELSE CASE Tag(a) = "Bytes" -> CmpBytes(Body(a), Body(b))
         [] Tag(a) = "Integer" ->
              IF Body(a) < Body(b) THEN -1 ELSE IF Body(a) > Body(b) THEN 1 ELSE 0
         [] Tag(a) = "List" -> CmpValues(Body(a), Body(b))
         [] Tag(a) = "Dict" -> CmpPairs(Body(a), Body(b))

CmpValues(a, b) ==
  IF a = <<>> /\ b = <<>> THEN 0
  ELSE IF a = <<>> THEN -1
  ELSE IF b = <<>> THEN 1
  ELSE LET c == CmpValue(Head(a), Head(b))
       IN IF c # 0 THEN c ELSE CmpValues(Tail(a), Tail(b))

CmpPairs(a, b) ==
  IF a = <<>> /\ b = <<>> THEN 0
  ELSE IF a = <<>> THEN -1
  ELSE IF b = <<>> THEN 1
  ELSE LET k == CmpValue(Head(a)[1], Head(b)[1])
           c == IF k # 0 THEN k ELSE CmpValue(Head(a)[2], Head(b)[2])
       IN IF c # 0 THEN c ELSE CmpPairs(Tail(a), Tail(b))

\* A faulty BTreeInsert: a map that keeps insertion order.
RECURSIVE BTreeInsertAppend(_, _, _)
BTreeInsertAppend(d, key, value) ==
  IF d = <<>> THEN << <<key, value>> >>
  ELSE IF CmpValue(key, Head(d)[1]) = 0
       THEN << <<Head(d)[1], value>> >> \o Tail(d)
       ELSE <<Head(d)>> \o BTreeInsertAppend(Tail(d), key, value)

\* BTreeMap::insert: an equal key keeps its place and takes the new value,
\* a new key goes to its place in ascending key order.
RECURSIVE BTreeInsert(_, _, _)
BTreeInsert(d, key, value) ==
  IF d = <<>> THEN << <<key, value>> >>
  ELSE LET c == CmpValue(key, Head(d)[1])
       IN IF c = 0 THEN << <<Head(d)[1], value>> >> \o Tail(d)
          ELSE IF c < 0 THEN << <<key, value>> >> \o d
          ELSE <<Head(d)>> \o BTreeInsert(Tail(d), key, value)

\* ------------------------------------------------------------ text helpers

\* String::from_utf8_lossy on the bytes drawn here: an ASCII byte is itself; a
\* byte from 0x80 up is never part of a valid sequence in these inputs (the only
\* one drawn is 0xFF) and becomes U+FFFD, whose UTF-8 bytes are EF BF BD.
RECURSIVE from_utf8_lossy(_)
from_utf8_lossy(buf) ==
  IF buf = <<>> THEN <<>>
  ELSE (IF Head(buf) < 128 THEN <<Head(buf)>> ELSE <<239, 191, 189>>)
       \o from_utf8_lossy(Tail(buf))

\* str::is_char_boundary: the ends of the string, or a byte that is not a
\* UTF-8 continuation byte (0x80..0xBF).
is_char_boundary(str, index) ==
  \/ index = 0
  \/ index = Len(str)
  \/ /\ index < Len(str)
     /\ (str[index + 1] < 128 \/ str[index + 1] >= 192)

\* `&s[..s.len() - 1]`: with an empty string the subtraction overflows (a panic
\* in a debug build; in a release build the wrapped end is out of range, and the
\* slice panics); an end inside a character panics as well.
SliceLastPanics(str) ==
  \/ Len(str) = 0
  \/ ~is_char_boundary(str, Len(str) - 1)

DropLast(str) == SubSeq(str, 1, Len(str) - 1)

AllDigits(str) == \A k \in 1..Len(str) : IsDigit(str[k])

RECURSIVE DigitsValue(_, _)
DigitsValue(str, acc) ==
  IF str = <<>> THEN acc
  ELSE DigitsValue(Tail(str), acc * 10 + (Head(str) - 48))

ParseErr == [ok |-> FALSE, val |-> 0]
ParseOk(n) == [ok |-> TRUE, val |-> n]

\* str::parse::<i64>: an optional '+' or '-', then one or more decimal digits
\* (leading zeros are accepted).
parse_i64(str) ==
  IF str = <<>> THEN ParseErr
  ELSE IF Head(str) = 45 \/ Head(str) = 43
  THEN IF Tail(str) = <<>> \/ ~AllDigits(Tail(str)) THEN ParseErr
       ELSE IF Head(str) = 45 THEN ParseOk(0 - DigitsValue(Tail(str), 0))
       ELSE ParseOk(DigitsValue(Tail(str), 0))
  ELSE IF ~AllDigits(str) THEN ParseErr
  ELSE ParseOk(DigitsValue(str, 0))

\* str::parse::<usize>: an optional '+', then one or more decimal digits; a
\* '-' is an invalid digit for an unsigned type.
parse_usize(str) ==
  IF str = <<>> THEN ParseErr
  ELSE IF Head(str) = 43
  THEN IF Tail(str) = <<>> \/ ~AllDigits(Tail(str)) THEN ParseErr
       ELSE ParseOk(DigitsValue(Tail(str), 0))
  ELSE IF ~AllDigits(str) THEN ParseErr
  ELSE ParseOk(DigitsValue(str, 0))

\* Display of a non-negative integer: its decimal digits, most significant first.
RECURSIVE NatToString(_)
NatToString(n) ==
  IF n < 10 THEN <<48 + n>>
  ELSE NatToString(n \div 10) \o <<48 + (n % 10)>>

\* A faulty to_string: a zero-padded field of at least two digits.
to_string_padded(n) ==
  IF n < 0 THEN <<45>> \o NatToString(0 - n)
  ELSE IF n < 10 THEN <<48>> \o NatToString(n)
  ELSE NatToString(n)

\* ToString for i64 and usize: '-' and the magnitude, or the magnitude.
to_string(n) ==
  IF n < 0 THEN <<45>> \o NatToString(0 - n) ELSE NatToString(n)

\* ------------------------------------------------------------------ stream

\* The first position of `delim` in s, or 0.
RECURSIVE IndexOf(_, _, _)
IndexOf(s, delim, k) ==
  IF k > Len(s) THEN 0
  ELSE IF s[k] = delim THEN k
  ELSE IndexOf(s, delim, k + 1)

\* A faulty read_until: the same bytes returned, the whole buffer consumed.
read_until_eof(s, delim) ==
  LET k == IndexOf(s, delim, 1)
  IN IF k = 0 THEN [buf |-> s, rest |-> <<>>]
     ELSE [buf |-> SubSeq(s, 1, k), rest |-> <<>>]

\* AsyncBufReadExt::read_until: the bytes up to and including the first
\* `delim`, or everything up to the end of the stream; they are consumed.
read_until(s, delim) ==
  LET k == IndexOf(s, delim, 1)
  IN IF k = 0 THEN [buf |-> s, rest |-> <<>>]
     ELSE [buf |-> SubSeq(s, 1, k), rest |-> SubSeq(s, k + 1, Len(s))]

\* AsyncReadExt::read_exact: n bytes, or the I/O error UnexpectedEof once the
\* stream has been read to its end.
read_exact(s, n) ==
  IF Len(s) >= n
  THEN [ok |-> TRUE, bytes |-> SubSeq(s, 1, n), rest |-> SubSeq(s, n + 1, Len(s))]
  ELSE [ok |-> FALSE, bytes |-> <<>>, rest |-> <<>>]

\* ----------------------------------------------------------------- results

NoValue == <<"None", <<>>>>

\* Result<Value, DecodeError>, and a panic of the call.
Ok(v) == [kind |-> "Ok", value |-> v, family |-> "", msg |-> ""]
ErrDECODER(m) == [kind |-> "Err", value |-> NoValue, family |-> "DECODER", msg |-> m]
ErrIO(m) == [kind |-> "Err", value |-> NoValue, family |-> "IO", msg |-> m]
Panic(m) == [kind |-> "Panic", value |-> NoValue, family |-> "", msg |-> m]

\* What a read returns: its result and the stream left behind it.
Ret(r, s) == [res |-> r, rest |-> s]

\* ----------------------------------------------------------------- Decoder

\* Decoder::read_integer: consume the 'i', read up to and including 'e' (or to
\* the end of the stream), drop the last byte of the text, parse the rest.
read_integer(s) ==
  LET u == read_until(Tail(s), END_TOKEN)
      int_str == from_utf8_lossy(u.buf)
      parsed_int == parse_i64(DropLast(int_str))
  IN IF SliceLastPanics(int_str) THEN Ret(Panic("slice index"), u.rest)
     ELSE IF ~parsed_int.ok THEN Ret(ErrDECODER("parse integer failed"), u.rest)
     ELSE Ret(Ok(Integer(parsed_int.val)), u.rest)

\* Decoder::read_bytes: read the length up to and including ':' (the lookahead
\* digit is not consumed first), drop the last byte of the text, parse the
\* rest, then read exactly that many bytes.
read_bytes(s) ==
  LET u == read_until(s, DELIM_TOKEN)
      length_str == from_utf8_lossy(u.buf)
      length == parse_usize(DropLast(length_str))
      x == read_exact(u.rest, length.val)
  IN IF SliceLastPanics(length_str) THEN Ret(Panic("slice index"), u.rest)
     ELSE IF ~length.ok THEN Ret(ErrDECODER("parse size failed"), u.rest)
     ELSE IF ~x.ok THEN Ret(ErrIO("UnexpectedEof"), x.rest)
     ELSE Ret(Ok(Bytes(x.bytes)), x.rest)

RECURSIVE read_anything(_), read_list(_), read_dict(_)
RECURSIVE read_list_loop(_, _), read_dict_loop(_, _)

\* Decoder::read_anything: dispatch on the lookahead byte, which fill_buf shows
\* without consuming it.
read_anything(s) ==
  IF s = <<>> THEN Ret(ErrDECODER("Expected token"), s)
  ELSE IF Head(s) = INTEGER_TOKEN THEN read_integer(s)
  ELSE IF Head(s) = LIST_TOKEN THEN read_list(s)
  ELSE IF Head(s) = DICT_TOKEN THEN read_dict(s)
  ELSE IF IsDigit(Head(s)) THEN read_bytes(s)
  ELSE Ret(ErrDECODER("Unknown token"), s)

\* The while loop of Decoder::read_list, entered after consume(1): until the
\* lookahead is 'e' (the end of the stream is not 'e'), push one more term.
read_list_loop(s, list) ==
  IF s # <<>> /\ Head(s) = END_TOKEN THEN Ret(Ok(List(list)), Tail(s))
  ELSE LET item == read_anything(s)
       IN IF item.res.kind # "Ok" THEN item
          ELSE read_list_loop(item.rest, Append(list, item.res.value))

\* The while loop of Decoder::read_dict, entered after consume(1): read the key
\* term, read the value term, and only then look at the key's variant.
read_dict_loop(s, dict) ==
  IF s # <<>> /\ Head(s) = END_TOKEN THEN Ret(Ok(Dict(dict)), Tail(s))
  ELSE LET key == read_anything(s)
       IN IF key.res.kind # "Ok" THEN key
          ELSE LET value == read_anything(key.rest)
               IN IF value.res.kind # "Ok" THEN value
                  ELSE IF Tag(key.res.value) = "Bytes"
                  THEN read_dict_loop(value.rest,
                         BTreeInsert(dict, key.res.value, value.res.value))
                  ELSE Ret(ErrDECODER("Dict key must be a byte string"), value.rest)

\* Decoder::read_list: consume the 'l', start with an empty Vec.
read_list(s) == read_list_loop(Tail(s), <<>>)

\* Decoder::read_dict: consume the 'd', start with an empty BTreeMap.
read_dict(s) == read_dict_loop(Tail(s), <<>>)

\* Value::decode
decode(s) == read_anything(s)

\* ----------------------------------------------------------------- Encoder

\* Encoder::write_bytes: the length in decimal, ':', the bytes.
write_bytes(value) == to_string(Len(value)) \o <<DELIM_TOKEN>> \o value

\* A faulty write_integer: the magnitude written, the sign lost.
write_integer_abs(value) ==
  <<INTEGER_TOKEN>> \o to_string(IF value < 0 THEN 0 - value ELSE value) \o <<END_TOKEN>>

\* Encoder::write_integer: 'i', the number in decimal, 'e'.
write_integer(value) == <<INTEGER_TOKEN>> \o to_string(value) \o <<END_TOKEN>>

RECURSIVE write_anything(_), write_items(_), write_pairs(_)

\* Encoder::write_anything: the bytes written to the sink for one value.
write_anything(value) ==
  CASE Tag(value) = "Bytes" -> write_bytes(Body(value))
    [] Tag(value) = "Integer" -> write_integer(Body(value))
    [] Tag(value) = "List" -> <<LIST_TOKEN>> \o write_items(Body(value)) \o <<END_TOKEN>>
    [] Tag(value) = "Dict" -> <<DICT_TOKEN>> \o write_pairs(Body(value)) \o <<END_TOKEN>>

\* The for loop of Encoder::write_list.
write_items(l) ==
  IF l = <<>> THEN <<>> ELSE write_anything(Head(l)) \o write_items(Tail(l))

\* The for loop of Encoder::write_dict, over the map's iteration order.
write_pairs(d) ==
  IF d = <<>> THEN <<>>
  ELSE write_anything(Head(d)[1]) \o write_anything(Head(d)[2]) \o write_pairs(Tail(d))

\* Value::encode into a sink that accepts every write.
encode(value) == write_anything(value)

\* ------------------------------------------------- reference wire format
\* The wire format and the data model as the specification states them,
\* written without the codec's operators; the properties below compare the
\* codec against them.

\* a < b byte-wise: a is a proper prefix of b, or at the first difference a's
\* byte is the smaller.
BytesLess(a, b) ==
  \E k \in 1..(Len(b)) :
    /\ \A j \in 1..(k - 1) : j <= Len(a) /\ a[j] = b[j]
    /\ (k = Len(a) + 1 \/ (k <= Len(a) /\ a[k] < b[k]))

RECURSIVE Pow10(_)
Pow10(k) == IF k = 0 THEN 1 ELSE 10 * Pow10(k - 1)

\* The decimal numeral of n >= 0 without leading zeros, by place value.
Decimal(n) ==
  LET k == CHOOSE c \in 1..9 : n < Pow10(c) /\ (c = 1 \/ n >= Pow10(c - 1))
  IN [j \in 1..k |-> 48 + ((n \div Pow10(k - j)) % 10)]

\* The pairs of a set in ascending key order (keys are distinct byte strings).
RECURSIVE Ascending(_)
Ascending(pairs) ==
  IF pairs = {} THEN <<>>
  ELSE LET first == CHOOSE p \in pairs :
                      \A q \in pairs \ {p} : BytesLess(Body(p[1]), Body(q[1]))
       IN <<first>> \o Ascending(pairs \ {first})

Range(f) == {f[k] : k \in DOMAIN f}

\* The Value a term denotes: the same tree with every dictionary's pairs in
\* ascending key order.
RECURSIVE Denote(_)
Denote(t) ==
  CASE Tag(t) = "List" -> List([k \in DOMAIN Body(t) |-> Denote(Body(t)[k])])
    [] Tag(t) = "Dict" ->
         Dict(Ascending({<<p[1], Denote(p[2])>> : p \in Range(Body(t))}))
    [] OTHER -> t

\* The bytes of a term, its dictionaries' pairs in the order the term lists them.
RECURSIVE Wire(_), WireAll(_)
Wire(t) ==
  CASE Tag(t) = "Bytes" -> Decimal(Len(Body(t))) \o <<58>> \o Body(t)
    [] Tag(t) = "Integer" ->
         <<105>> \o (IF Body(t) < 0 THEN <<45>> \o Decimal(0 - Body(t))
                     ELSE Decimal(Body(t))) \o <<101>>
    [] Tag(t) = "List" -> <<108>> \o WireAll(Body(t)) \o <<101>>
    [] Tag(t) = "Dict" ->
         <<100>> \o WireAll([k \in 1..(2 * Len(Body(t))) |->
                              Body(t)[(k + 1) \div 2][2 - (k % 2)]]) \o <<101>>

WireAll(ts) == IF ts = <<>> THEN <<>> ELSE Wire(Head(ts)) \o WireAll(Tail(ts))

\* Every dictionary of the tree has Bytes keys in strictly ascending order.
RECURSIVE Canonical(_)
Canonical(v) ==
  CASE Tag(v) = "List" -> \A k \in DOMAIN Body(v) : Canonical(Body(v)[k])
    [] Tag(v) = "Dict" ->
         /\ \A k \in DOMAIN Body(v) :
              Tag(Body(v)[k][1]) = "Bytes" /\ Canonical(Body(v)[k][2])
         /\ \A k \in 1..(Len(Body(v)) - 1) :
              BytesLess(Body(Body(v)[k][1]), Body(Body(v)[k + 1][1]))
    [] OTHER -> TRUE

\* ------------------------------------------------------------------ inputs

MaxNodes == 3
MaxRaw == 4
MaxOps == 3

\* "hello world", "key1", "key2", "value1"
HelloWorld == <<104, 101, 108, 108, 111, 32, 119, 111, 114, 108, 100>>
Key1 == <<107, 101, 121, 49>>
Key2 == <<107, 101, 121, 50>>
Value1 == <<118, 97, 108, 117, 101, 49>>

\* Dictionary keys of the generated terms: "b" and "ab".
Keys == {Bytes(<<98>>), Bytes(<<97, 98>>)}

\* Leaves of the generated terms: "", "b", 0, 7 and -12.
Leaves == {Bytes(<<>>), Bytes(<<98>>), Integer(0), Integer(7), Integer(0 - 12)}

\* The sequences of m distinct keys.
KeySeqs(m) ==
  {ks \in [1..m -> Keys] : \A i \in 1..m : \A j \in 1..m : ks[i] = ks[j] => i = j}

\* Terms of exactly n nodes (a leaf, a list or a dictionary is one node; keys
\* are not counted), and the sequences of terms of n nodes in all.
RECURSIVE TermsOfSize(_), ForestsOfSize(_)
TermsOfSize(n) ==
  (IF n = 1 THEN Leaves ELSE {})
    \cup {List(f) : f \in ForestsOfSize(n - 1)}
    \cup UNION {{Dict([k \in 1..Len(f) |-> <<ks[k], f[k]>>]) : ks \in KeySeqs(Len(f))}
                  : f \in ForestsOfSize(n - 1)}

ForestsOfSize(n) ==
  IF n = 0 THEN {<<>>}
  ELSE UNION {{<<x>> \o r : x \in TermsOfSize(k), r \in ForestsOfSize(n - k)}
                : k \in 1..n}

\* The values of the repository's tests and of the specification's scenarios,
\* among them dictionaries whose keys the input lists out of order.
ScenarioTerms ==
  { Bytes(HelloWorld),
    Integer(1234),
    List(<<Bytes(HelloWorld)>>),
    List(<<Bytes(HelloWorld), Integer(1234)>>),
    Dict(<< <<Bytes(Key1), Bytes(Value1)>>, <<Bytes(Key2), Integer(1234)>> >>),
    Dict(<< <<Bytes(Key2), Integer(1234)>>, <<Bytes(Key1), Bytes(Value1)>> >>),
    Dict(<< <<Bytes(<<98>>), Integer(7)>>, <<Bytes(<<>>), Integer(0)>> >>),
    List(<< Dict(<< <<Bytes(<<98>>), Integer(7)>>, <<Bytes(<<97, 98>>), List(<<>>)>> >>) >>),
    Dict(<< <<Bytes(<<98>>),
              Dict(<< <<Bytes(<<98>>), Integer(0)>>, <<Bytes(<<97, 98>>), Integer(7)>> >>)>> >>) }

Terms == UNION {TermsOfSize(n) : n \in 1..MaxNodes} \cup ScenarioTerms

\* Bytes that may follow a term in the stream: nothing, "e", "1", 0xFF, "i0e".
Suffixes == {<<>>, <<101>>, <<49>>, <<255>>, <<105, 48, 101>>}

\* The bytes of arbitrary streams: i l d e : - 0 1 and 0xFF.
Alphabet == {105, 108, 100, 101, 58, 45, 48, 49, 255}

\* The malformed inputs the specification lists ("i03e", "i-0e", "5:abc", "x"),
\* and a dictionary that gives the key "b" twice ("d1:bi0e1:bi7ee").
ScenarioStreams ==
  { <<105, 48, 51, 101>>,
    <<105, 45, 48, 101>>,
    <<53, 58, 97, 98, 99>>,
    <<120>>,
    <<100, 49, 58, 98, 105, 48, 101, 49, 58, 98, 105, 55, 101, 101>> }

RawInputs == UNION {[1..n -> Alphabet] : n \in 0..MaxRaw} \cup ScenarioStreams

\* ------------------------------------------------------------------- state

VARIABLES
  mode,     \* how the run was set up: "value", "whole", "cut" or "raw"
  term,     \* the term behind the input or the value, NoValue for a raw stream
  input,    \* the stream as first opened
  reader,   \* the bytes the reader has not consumed
  writer,   \* the bytes written to the sink
  held,     \* the Value the caller holds, NoValue before there is one
  results,  \* what each decode call returned, and the stream it left
  encoded,  \* what the last encode call returned, its value and the bytes it wrote
  ops       \* the calls made so far

vars == <<mode, term, input, reader, writer, held, results, encoded, ops>>

NotEncoded == [res |-> "None", value |-> NoValue, bytes |-> <<>>]

\* A caller that holds a Value built to the data model's invariants, or a
\* reader opened on a stream: a whole term and what follows it, a term cut
\* short before its end, or arbitrary bytes.
Init ==
  /\ writer = <<>>
  /\ results = <<>>
  /\ encoded = NotEncoded
  /\ ops = <<>>
  /\ \/ /\ mode = "value"
        /\ term \in {t \in Terms : Denote(t) = t}
        /\ held = term
        /\ input = <<>>
     \/ /\ mode = "whole"
        /\ term \in Terms
        /\ held = NoValue
        /\ \E s \in Suffixes : input = Wire(term) \o s
     \/ /\ mode = "cut"
        /\ term \in Terms
        /\ held = NoValue
        /\ \E k \in 0..(Len(Wire(term)) - 1) : input = SubSeq(Wire(term), 1, k)
     \/ /\ mode = "raw"
        /\ term = NoValue
        /\ held = NoValue
        /\ input \in RawInputs
  /\ reader = input

\* A panic unwinds the caller: nothing is called after it.
Crashed == \E k \in DOMAIN results : results[k].res.kind = "Panic"

\* Value::decode(&mut reader): the reader advances, the caller keeps an Ok value.
DecodeCall ==
  /\ Len(ops) < MaxOps
  /\ ~Crashed
  /\ LET r == decode(reader)
     IN /\ results' = Append(results, r)
        /\ reader' = r.rest
        /\ held' = IF r.res.kind = "Ok" THEN r.res.value ELSE held
  /\ ops' = Append(ops, "decode")
  /\ UNCHANGED <<mode, term, input, writer, encoded>>

\* held.encode(&mut writer) and the flush: the sink takes every byte.
EncodeCall ==
  /\ Len(ops) < MaxOps
  /\ ~Crashed
  /\ held # NoValue
  /\ writer' = writer \o encode(held)
  /\ encoded' = [res |-> "Ok", value |-> held, bytes |-> encode(held)]
  /\ ops' = Append(ops, "encode")
  /\ UNCHANGED <<mode, term, input, reader, held, results>>

\* BufReader::new(Cursor::new(buf)) on the bytes written so far, and a fresh
\* Vec for the sink.
Reopen ==
  /\ Len(ops) < MaxOps
  /\ ~Crashed
  /\ writer # <<>>
  /\ reader' = writer
  /\ writer' = <<>>
  /\ ops' = Append(ops, "reopen")
  /\ UNCHANGED <<mode, term, input, held, results, encoded>>

Next == DecodeCall \/ EncodeCall \/ Reopen

Spec == Init /\ [][Next]_vars

\* ------------------------------------------------------------------ claims

\* The bytes that follow the term in a "whole" stream.
Suffix == SubSeq(input, Len(Wire(term)) + 1, Len(input))

\* C1: round trip. A Value that satisfies the data model's invariants, encoded
\* and then decoded from the bytes written, comes back Ok and equal.
C1_RoundTrip ==
  (/\ mode = "value"
   /\ Canonical(term)
   /\ Len(ops) >= 3
   /\ SubSeq(ops, 1, 3) = <<"encode", "reopen", "decode">>)
  => /\ results[1].res.kind = "Ok"
     /\ results[1].res.value = term
     /\ results[1].rest = <<>>

C1_Witness ==
  /\ mode = "value"
  /\ ops = <<"encode", "reopen", "decode">>
  /\ Tag(term) = "Dict"
  /\ Len(Body(term)) = 2
  /\ \E k \in 1..2 : Tag(Body(term)[k][2]) = "Integer" /\ Body(Body(term)[k][2]) < 0
  /\ results[1].res.value = term

\* C2: canonical idempotence. A canonical byte sequence (one complete term,
\* keys ascending, canonical numerals) that decodes to v is what encoding v writes.
C2_CanonicalIdempotence ==
  (/\ mode = "whole"
   /\ Denote(term) = term
   /\ input = Wire(term)
   /\ ops = <<"decode", "encode">>)
  => /\ results[1].res.kind = "Ok"
     /\ encoded.value = results[1].res.value
     /\ encoded.bytes = input

C2_Witness ==
  /\ mode = "whole"
  /\ Denote(term) = term
  /\ input = Wire(term)
  /\ ops = <<"decode", "encode">>
  /\ Tag(term) = "Dict"
  /\ Len(Body(term)) = 2
  /\ encoded.bytes = input

\* C3: the encoder writes the reference serialization of the value (length, ':'
\* and the bytes; 'i', the canonical numeral, 'e'; 'l' items 'e'; 'd' pairs in
\* ascending key order 'e'), and returns Ok; the tests' vectors come out as
\* the tests give them.
C3_EncoderReference ==
  encoded.res # "None"
  => /\ encoded.res = "Ok"
     /\ encoded.bytes = Wire(Denote(encoded.value))
     /\ encoded.value = Bytes(HelloWorld) => encoded.bytes = <<49, 49, 58>> \o HelloWorld
     /\ encoded.value = Integer(1234) => encoded.bytes = <<105, 49, 50, 51, 52, 101>>
     /\ encoded.value = Integer(0) => encoded.bytes = <<105, 48, 101>>

C3_Witness ==
  /\ encoded.res = "Ok"
  /\ Tag(encoded.value) = "Dict"
  /\ Len(Body(encoded.value)) = 2
  /\ \E k \in 1..2 : Body(encoded.value)[k][2] = Integer(0)
  /\ encoded.bytes = Wire(encoded.value)

\* C4: on a well-formed term followed by any bytes, decode returns the Value
\* the term denotes and leaves the stream at the first byte after the term; a
\* second decode starts there.
C4_ExactConsumption ==
  (mode = "whole" /\ Len(results) >= 1)
  => /\ results[1].res.kind = "Ok"
     /\ results[1].res.value = Denote(term)
     /\ results[1].rest = Suffix
     /\ (Len(ops) >= 2 /\ ops[2] = "decode" /\ Suffix = <<105, 48, 101>>)
          => (results[2].res = Ok(Integer(0)) /\ results[2].rest = <<>>)
     /\ (Len(ops) >= 2 /\ ops[2] = "decode" /\ Suffix = <<>>)
          => results[2].res = ErrDECODER("Expected token")

C4_Witness ==
  /\ mode = "whole"
  /\ ops = <<"decode", "decode">>
  /\ Tag(term) = "List"
  /\ Len(Body(term)) = 2
  /\ Suffix = <<105, 48, 101>>
  /\ results[1].rest = Suffix
  /\ results[2].res.kind = "Ok"

\* C5: every dictionary of a decoded Value, at any depth, has unique Bytes keys
\* in strictly ascending order, whatever the order in the input; a term with
\* its keys out of order decodes to what the same term with its pairs in
\* ascending order decodes to.
C5_DictOrdering ==
  /\ \A k \in DOMAIN results :
       results[k].res.kind = "Ok" => Canonical(results[k].res.value)
  /\ (mode = "whole" /\ Len(results) >= 1)
       => results[1].res = decode(Wire(Denote(term))).res

C5_Witness ==
  /\ mode = "whole"
  /\ Len(results) >= 1
  /\ Tag(term) = "List"
  /\ Denote(term) # term
  /\ results[1].res.kind = "Ok"
  /\ results[1].res.value = Denote(term)

\* An integer term whose numeral has a leading zero or is "-0".
RedundantInteger(b) ==
  /\ Len(b) >= 4
  /\ b[1] = 105
  /\ b[Len(b)] = 101
  /\ LET digits == IF b[2] = 45 THEN SubSeq(b, 3, Len(b) - 1)
                   ELSE SubSeq(b, 2, Len(b) - 1)
     IN /\ digits # <<>>
        /\ \A k \in DOMAIN digits : digits[k] >= 48 /\ digits[k] <= 57
        /\ digits[1] = 48
        /\ (Len(digits) > 1 \/ b[2] = 45)

\* C6: an integer term with a leading zero or a negative zero fails with the
\* format error for integers and is never accepted.
C6_RedundantIntegerRejected ==
  (mode = "raw" /\ RedundantInteger(input) /\ Len(results) >= 1)
  => /\ results[1].res.kind = "Err"
     /\ results[1].res.family = "DECODER"
     /\ results[1].res.msg = "parse integer failed"

\* C7: a proper prefix of a well-formed term never decodes to a Value.
C7_TruncatedRejected ==
  (mode = "cut" /\ Len(results) >= 1) => results[1].res.kind # "Ok"

\* C8: decode returns Ok or Err on every input; it never panics.
C8_NeverPanics ==
  \A k \in DOMAIN results : results[k].res.kind \in {"Ok", "Err"}

\* A byte string whose declared length n exceeds the bytes that follow the ':'.
DeclaresTooMany(b) ==
  \E n \in 1..99 :
    LET prefix == Decimal(n) \o <<58>>
    IN /\ Len(b) >= Len(prefix)
       /\ SubSeq(b, 1, Len(prefix)) = prefix
       /\ Len(b) - Len(prefix) < n

\* C9: a byte string cut short of its declared length fails with a format
\* error, never with an error of the I/O family.
C9_TruncatedIsFormatError ==
  (mode = "raw" /\ DeclaresTooMany(input) /\ Len(results) >= 1)
  => /\ results[1].res.kind = "Err"
     /\ results[1].res.family = "DECODER"

\* The stream opens a dictionary whose first key term decodes to a Value that
\* is not Bytes.
FirstKeyNotBytes(b) ==
  /\ Len(b) >= 2
  /\ b[1] = 100
  /\ b[2] # 101
  /\ decode(Tail(b)).res.kind = "Ok"
  /\ Tag(decode(Tail(b)).res.value) # "Bytes"

\* C10: a key term that is not Bytes fails the decode with the key error,
\* whatever follows the key.
C10_InvalidKey ==
  (mode = "raw" /\ FirstKeyNotBytes(input) /\ Len(results) >= 1)
  => results[1].res = ErrDECODER("Dict key must be a byte string")

====
